---- MODULE Spec2Model ----
(***************************************************************************)
(* A model of install-release (gocode): the persisted installation state,  *)
(* the get / hold / rm commands and the upgrade command with its bounded   *)
(* concurrent check phase and its sequential apply phase.                  *)
(*                                                                         *)
(* The state file and the upstream repositories are the environment.  A    *)
(* command is one process; the upgrade command additionally runs one       *)
(* goroutine per installed, non-held tool during its check phase.          *)
(***************************************************************************)
EXTENDS Integers, Sequences, FiniteSets, TLC

(***************************************************************************)
(* Bounds of the model.                                                    *)
(***************************************************************************)
\* tools in a "wide" pre-populated state file (all checked concurrently)
NumWide == 6
\* tools in a "rich" pre-populated state file (arbitrary hold flags / tags)
NumRich == 3
\* releases a repository publishes at most; tags are 1..MaxTag
MaxTag == 2
\* assets in the releases handed to the selector
MaxAssets == 3
\* files in the tree handed to the executable search
MaxFiles == 3
\* entries in the archive handed to the extraction
MaxEntries == 2

(***************************************************************************)
(* Program constants.                                                      *)
(***************************************************************************)
\* commands.go:222  const maxConcurrent = 5
maxConcurrent == 5
\* part_008:308  asset.Size < 100*1024*1024
SmallAssetLimit == 104857600

(***************************************************************************)
(* Strings.  A file name is a sequence of one-character strings so that    *)
(* strings.Contains / HasSuffix / ToLower are computed, not assumed.       *)
(***************************************************************************)
Contains(s, p) ==
    \E i \in 1..(Len(s) - Len(p) + 1) : SubSeq(s, i, i + Len(p) - 1) = p

HasSuffix(s, p) ==
    Len(s) >= Len(p) /\ SubSeq(s, Len(s) - Len(p) + 1, Len(s)) = p

UpperToLower ==
    [c \in {"A", "D", "E", "L", "M", "R", "T", "W"} |->
        CASE c = "A" -> "a" [] c = "D" -> "d" [] c = "E" -> "e"
          [] c = "L" -> "l" [] c = "M" -> "m" [] c = "R" -> "r"
          [] c = "T" -> "t" [] c = "W" -> "w"]

ToLower(s) ==
    [i \in 1..Len(s) |->
        IF s[i] \in DOMAIN UpperToLower THEN UpperToLower[s[i]] ELSE s[i]]

\* filepath.Base(name): the part after the last "/"
Base(s) ==
    LET slashes == {i \in 1..Len(s) : s[i] = "/"}
    IN  IF slashes = {} THEN s
        ELSE SubSeq(s, (CHOOSE i \in slashes : \A j \in slashes : j <= i) + 1, Len(s))

(***************************************************************************)
(* The running platform (GetSystemInfo): linux on x86_64.                  *)
(***************************************************************************)
CurrentOS == <<"l","i","n","u","x">>
CurrentArch == <<"x","8","6","_","6","4">>

(***************************************************************************)
(* Release assets.  An asset file is a name, a size and a content type.    *)
(***************************************************************************)
LinuxAmd64 == <<"t","o","o","l","-","l","i","n","u","x","-","a","m","d","6","4">>
DotTarGz == <<".","t","a","r",".","g","z">>
DotDeb == <<".","d","e","b">>
Gzip == <<"a","p","p","l","i","c","a","t","i","o","n","/","g","z","i","p">>
OctetStream ==
    <<"a","p","p","l","i","c","a","t","i","o","n","/","o","c","t","e","t","-","s","t","r","e","a","m">>
XExecutable ==
    <<"a","p","p","l","i","c","a","t","i","o","n","/","x","-","e","x","e","c","u","t","a","b","l","e">>

\* tgz, zip, deb and sums are the files the repositories of the command
\* specifications publish; the others are further uploads of the same tool
\* for the selector: the archive and the package of one build, small and
\* large (over 100 MB), under several content types
AssetFiles ==
    [ ltgz    |-> [name |-> LinuxAmd64 \o DotTarGz, size |-> 5000000, contentType |-> Gzip],
      ltgzBig |-> [name |-> LinuxAmd64 \o DotTarGz, size |-> 200000000,
                   contentType |-> OctetStream],
      ldeb    |-> [name |-> LinuxAmd64 \o DotDeb, size |-> 4000000,
                   contentType |-> OctetStream],
      ldebExe |-> [name |-> LinuxAmd64 \o DotDeb, size |-> 4000000,
                   contentType |-> XExecutable],
      atgz    |-> [name |-> <<"t","o","o","l","_","a","m","d","6","4">> \o DotTarGz,
                   size |-> 200000000, contentType |-> Gzip],
      tgz  |-> [name |-> <<"T","o","o","l","-","l","i","n","u","x","-","a","m","d","6","4",".","t","a","r",".","g","z">>,
                size |-> 5000000, contentType |->
                  <<"a","p","p","l","i","c","a","t","i","o","n","/","g","z","i","p">>],
      zip  |-> [name |-> <<"t","o","o","l","-","w","i","n","d","o","w","s","-","a","m","d","6","4",".","z","i","p">>,
                size |-> 6000000, contentType |->
                  <<"a","p","p","l","i","c","a","t","i","o","n","/","z","i","p">>],
      deb  |-> [name |-> <<"t","o","o","l","_","a","m","d","6","4",".","d","e","b">>,
                size |-> 4000000, contentType |->
                  <<"a","p","p","l","i","c","a","t","i","o","n","/","o","c","t","e","t","-","s","t","r","e","a","m">>],
      sums |-> [name |-> <<"c","h","e","c","k","s","u","m","s",".","t","x","t">>,
                size |-> 300, contentType |->
                  <<"t","e","x","t","/","p","l","a","i","n">>] ]

FileIds == DOMAIN AssetFiles

(***************************************************************************)
(* AssetSelector: scoring.  Scores are kept exact as integers scaled by    *)
(* ScoreUnit * (number of patterns): 1.0 is ScoreUnit * Len(allPatterns).  *)
(***************************************************************************)
ScoreUnit == 1000

getPlatformPatterns(osName, arch) ==
    LET archAliases ==
            IF arch = <<"x","8","6","_","6","4">>
              THEN << <<"x","8","6">>, <<"x","6","4">>, <<"a","m","d","6","4">>,
                      <<"a","m","d">>, <<"x","8","6","_","6","4">> >>
            ELSE IF arch = <<"a","a","r","c","h","6","4">>
              THEN << <<"a","r","m","6","4">>, <<"a","a","r","c","h","6","4">>,
                      <<"a","r","m">> >>
            ELSE << ToLower(arch) >>
    IN  <<ToLower(osName)>> \o archAliases

\* mutation of applyPlatformPenalties: another platform's name raises the score
applyPlatformPenaltiesRaise(score, asset, currentOS, currentArch) ==
    IF Contains(ToLower(asset.name), <<"w","i","n","d","o","w","s">>)
      THEN score * 10 ELSE score

applyPlatformPenalties(score, asset, currentOS, currentArch) ==
    LET name == ToLower(asset.name)
        otherPlatforms ==
            IF currentOS = <<"l","i","n","u","x">>
              THEN { <<"w","i","n","d","o","w","s">>, <<"d","a","r","w","i","n">>,
                     <<"m","a","c","o","s">>, <<"w","i","n","3","2">>,
                     <<"w","i","n","6","4">>, <<".","e","x","e">> }
            ELSE IF currentOS = <<"d","a","r","w","i","n">>
              THEN { <<"w","i","n","d","o","w","s">>, <<"l","i","n","u","x">>,
                     <<"w","i","n","3","2">>, <<"w","i","n","6","4">>,
                     <<".","e","x","e">> }
            ELSE IF currentOS = <<"w","i","n","d","o","w","s">>
              THEN { <<"l","i","n","u","x">>, <<"d","a","r","w","i","n">>,
                     <<"m","a","c","o","s">> }
            ELSE {}
        otherArchs ==
            IF currentArch = <<"x","8","6","_","6","4">>
              THEN { <<"a","r","m","6","4">>, <<"a","a","r","c","h","6","4">>,
                     <<"a","r","m">>, <<"i","3","8","6">>, <<"i","6","8","6">> }
            ELSE IF currentArch = <<"a","a","r","c","h","6","4">>
              THEN { <<"x","8","6","_","6","4">>, <<"a","m","d","6","4">>,
                     <<"x","6","4">>, <<"i","3","8","6">>, <<"i","6","8","6">> }
            ELSE {}
        s1 == IF \E p \in otherPlatforms : Contains(name, p)
                THEN score \div 10 ELSE score
        s2 == IF \E a \in otherArchs : Contains(name, a)
                THEN s1 \div 2 ELSE s1
    IN  s2

isExecutableAsset(asset) ==
    LET name == ToLower(asset.name)
    IN  \/ \E ext \in { <<".","e","x","e">>, <<".","b","i","n">>, <<".","a","p","p">> } :
              HasSuffix(name, ext)
        \/ ~ Contains(Base(name), <<".">>)
        \/ Contains(asset.contentType, <<"e","x","e","c","u","t","a","b","l","e">>)
        \/ Contains(asset.contentType, <<"b","i","n","a","r","y">>)

isArchiveAsset(asset) ==
    LET name == ToLower(asset.name)
    IN  \E ext \in { <<".","t","a","r",".","g","z">>, <<".","t","g","z">>,
                     <<".","z","i","p">>, <<".","t","a","r">> } :
            HasSuffix(name, ext)

isPackageAsset(asset) ==
    LET name == ToLower(asset.name)
    IN  \E ext \in { <<".","d","e","b">>, <<".","r","p","m">>, <<".","p","k","g">>,
                     <<".","m","s","i">>, <<".","d","m","g">> } :
            HasSuffix(name, ext)

\* mutation of applyAssetBonusesAndPenalties: the factors of archives and
\* packages are exchanged
applyAssetBonusesAndPenaltiesSwapped(score, asset, name, one) ==
    LET s1 == IF isArchiveAsset(asset) THEN (score * 3) \div 10
              ELSE IF isPackageAsset(asset) THEN score * 2
              ELSE score
        s2 == IF isExecutableAsset(asset) \/ isArchiveAsset(asset)
                THEN s1 + one \div 5 ELSE s1
        s3 == IF Contains(name, <<"d","e","b","u","g">>) \/ Contains(name, <<"d","b","g">>)
                THEN (s2 * 4) \div 5 ELSE s2
        s4 == IF asset.size < SmallAssetLimit THEN s3 + one \div 10 ELSE s3
    IN  s4

\* `one` is the scaled value of 1.0
applyAssetBonusesAndPenalties(score, asset, name, one) ==
    LET s1 == IF isArchiveAsset(asset) THEN score * 2
              ELSE IF isPackageAsset(asset) THEN (score * 3) \div 10
              ELSE score
        s2 == IF isExecutableAsset(asset) \/ isArchiveAsset(asset)
                THEN s1 + one \div 5 ELSE s1
        s3 == IF Contains(name, <<"d","e","b","u","g">>) \/ Contains(name, <<"d","b","g">>)
                THEN (s2 * 4) \div 5 ELSE s2
        s4 == IF asset.size < SmallAssetLimit THEN s3 + one \div 10 ELSE s3
    IN  s4

calculateAssetScore(asset, os, arch, extraWords) ==
    LET name == ToLower(asset.name)
        allPatterns == getPlatformPatterns(os, arch) \o extraWords
                         \o << <<"t","a","r">>, <<"z","i","p">> >>
        matchCount == Cardinality({i \in 1..Len(allPatterns) :
                                      Contains(name, ToLower(allPatterns[i]))})
        one == ScoreUnit * Len(allPatterns)
    IN  IF matchCount = 0 THEN 0
        ELSE applyAssetBonusesAndPenalties(
                 applyPlatformPenalties(matchCount * ScoreUnit, asset, os, arch),
                 asset, name, one)

\* the score of every asset file on the running platform, computed once
FileScore == [f \in FileIds |-> calculateAssetScore(AssetFiles[f], CurrentOS, CurrentArch, <<>>)]

(***************************************************************************)
(* Data model.                                                             *)
(*   URL      a repository URL as typed or stored: host, repository name   *)
(*            and whether it ends in "/"                                   *)
(*   key      url#name, kept as the pair <<url, name>>                     *)
(*   Release  url, tag_name, prerelease, assets, hold_update               *)
(* Repository names double as tool names (getCmd derives the tool name     *)
(* from the last path segment); they are numbers.                          *)
(***************************************************************************)
Hosts == {"github", "gitlab", "other"}

MkUrl(h, r, s) == [host |-> h, repo |-> r, slash |-> s]

\* fmt.Sprintf("https://github.com/%s/%s", owner, repoName)
RepoUrl(url) == MkUrl(url.host, url.repo, FALSE)

\* IrKey.String: "url#name"
IrKeyString(url, name) == <<url, name>>

\* ParseIrKey / the split on "#" in upgradeCmd: the name is the last part
KeyName(key) == key[2]

KeyUrl(key) == key[1]

\* an asset of a published release: which file, of which release of which repo
MkAsset(f, url, tag) == [file |-> f, repo |-> RepoUrl(url), of |-> tag]

\* the Release struct as the API client fills it
MkRelease(url, up) ==
    [ url    |-> RepoUrl(url),
      tag    |-> up.tag,
      pre    |-> up.pre,
      assets |-> [i \in 1..Len(up.files) |-> MkAsset(up.files[i], url, up.tag)],
      hold   |-> FALSE ]

\* the asset lists a published release can carry
GoodFiles == <<"tgz", "zip">>
PkgFiles  == <<"deb", "sums">>
BadFiles  == <<"sums">>

(***************************************************************************)
(* RepositoryClient.                                                       *)
(***************************************************************************)
\* GetRepoInfo: github.com and gitlab.com are supported
GetRepoInfoOk(url) == url.host \in {"github", "gitlab"}

\* the pre-release filter at the end of both Release methods
FilterPre(rels, preRelease) ==
    IF preRelease THEN rels
    ELSE LET NotPre(r) == ~ r.pre IN SelectSeq(rels, NotPre)

\* What the API answers for `ups`, the repository's releases (newest first).
\* tagName = 0 is the empty tag.  GitHub: /releases/tags/T or /releases/latest
\* (the newest release that is not a pre-release); GitLab: /releases/T or the
\* whole list.  An unknown tag or a missing latest release is an API error.
ApiAnswer(host, ups, tagName) ==
    LET Tagged(r) == r.tag = tagName
        Stable(r) == ~ r.pre
        hit == IF tagName # 0 THEN SelectSeq(ups, Tagged)
               ELSE IF host = "github" THEN SelectSeq(ups, Stable)
               ELSE ups
    IN  IF tagName # 0 \/ host = "github"
          THEN IF hit = <<>> THEN [err |-> TRUE, rels |-> <<>>]
               ELSE [err |-> FALSE, rels |-> <<hit[1]>>]
        ELSE [err |-> FALSE, rels |-> hit]

\* GitHubInfo.Release / GitLabInfo.Release once the request has succeeded
ReleaseOf(url, ups, tagName, preRelease) ==
    LET ans == ApiAnswer(url.host, ups, tagName)
    IN  IF ans.err THEN ans
        ELSE [err  |-> FALSE,
              rels |-> FilterPre([i \in 1..Len(ans.rels) |-> MkRelease(url, ans.rels[i])],
                                 preRelease)]

(***************************************************************************)
(* AssetSelector: GetRelease.                                              *)
(***************************************************************************)
\* all assets in iteration order: releases in input order, assets in release order
RECURSIVE FlattenAssets(_)
FlattenAssets(releases) ==
    IF releases = <<>> THEN <<>>
    ELSE releases[1].assets \o FlattenAssets(Tail(releases))

AssetScore(a) == FileScore[a.file]

\* mutation of Better: an equal score replaces the best asset
BetterOrEqual(score, bestScore) == score >= bestScore /\ score > 0

\* part_008:173: if score > bestScore
Better(score, bestScore) == score > bestScore

\* the loop of GetRelease: index of the asset that sets bestAsset last, 0 if none
RECURSIVE BestIndex(_, _, _, _)
BestIndex(assets, i, bestScore, best) ==
    IF i > Len(assets) THEN best
    ELSE IF Better(AssetScore(assets[i]), bestScore)
           THEN BestIndex(assets, i + 1, AssetScore(assets[i]), i)
         ELSE BestIndex(assets, i + 1, bestScore, best)

\* mutation of GetReleaseError: one error for both failures
GetReleaseErrorSame(releases) ==
    IF Len(releases) = 0 \/ BestIndex(FlattenAssets(releases), 1, 0, 0) = 0
      THEN "nosuitable"
    ELSE "none"

\* part_008:160-162, 182-184: the error GetRelease returns: "no releases
\* found", "no suitable asset found for os/arch", or none
GetReleaseError(releases) ==
    IF Len(releases) = 0 THEN "noreleases"
    ELSE IF BestIndex(FlattenAssets(releases), 1, 0, 0) = 0 THEN "nosuitable"
    ELSE "none"

\* GetRelease: <<>> for "no releases found" / "no suitable asset", else <<asset>>
GetRelease(releases) ==
    LET assets == FlattenAssets(releases)
        b == BestIndex(assets, 1, 0, 0)
    IN  IF releases = <<>> \/ b = 0 THEN <<>> ELSE <<assets[b]>>

(***************************************************************************)
(* StateStore.                                                             *)
(***************************************************************************)
EmptyState == << >>

\* state.go:17-30 NewStateManager: the map of a new manager is empty until Load
NewStateManager == EmptyState

\* mutation of MapSet: the map is made anew
MapSetFresh(st, key, value) == [k \in {key} |-> value]

\* sm.state[key] = value
MapSet(st, key, value) ==
    [k \in (DOMAIN st) \cup {key} |-> IF k = key THEN value ELSE st[k]]

\* delete(sm.state, key)
MapDelete(st, key) == [k \in (DOMAIN st) \ {key} |-> st[k]]

\* StateManager.Set: mutate the map, then Save (the map replaces the file)
Set(st, key, value) == MapSet(st, key, value)

\* StateManager.Delete: delete from the map, then Save
Delete(st, key) == MapDelete(st, key)

\* SetItem(key, release): setAndPersist of the state store
SetItem(st, key, value) == Set(st, key, value)

\* SetByName(url, name, release): setAndPersist under the key url#name
SetByName(st, url, name, value) == Set(st, IrKeyString(url, name), value)

\* DelItem(key): deleteAndPersist
DelItem(st, key) == Delete(st, key)

\* GetByName(name): the keys whose name part is `name` (the scan returns one)
GetByName(st, name) == {k \in DOMAIN st : KeyName(k) = name}

\* state.go:33-51 Load: a missing file is no error and leaves the map empty; a
\* file that cannot be opened or decoded is an error
LoadFails(f) == f = "corrupt"

Load(f, entries) == IF f = "ok" THEN entries ELSE EmptyState

(***************************************************************************)
(* ArchiveInstaller: FindExecutable.  A tree is the set of regular files   *)
(* under the extraction directory: path -> first bytes and permission bit. *)
(* Paths are numbered in the order filepath.Walk visits them (lexical).    *)
(***************************************************************************)
\* strings.HasPrefix
HasPrefix(s, p) == Len(s) >= Len(p) /\ SubSeq(s, 1, Len(p)) = p

\* commands.go:131: filepath.Join(GetTempDir(), "install-release", "extract")
TempDir == <<"/","t","m","p","/","i","n","s","t","a","l","l","-","r","e","l","e","a","s","e","/","e","x","t","r","a","c","t">>

\* the paths a tree can have, relative to the extraction directory, in walk
\* order
TreePaths ==
    << <<"R","E","A","D","M","E",".","m","d">>, <<"_","t","o","o","l">>, <<"c","o","m","p","l","e","t","i","o","n","/","t","o","o","l",".","b","a","s","h">>, <<"n","o","t","e","s",".","t","x","t">>, <<"t","o","o","l">>,
       <<"t","o","o","l","-","0",".","1",".","7">>, <<"t","o","o","l","-","c","o","m","p","l","e","t","i","o","n",".","s","h">>, <<"t","o","o","l",".","s","h">> >>

PathIds == 1..Len(TreePaths)

\* the documentation files among them
Docs == {i \in PathIds : HasSuffix(TreePaths[i], <<".","m","d">>) \/ HasSuffix(TreePaths[i], <<".","t","x","t">>)}

\* first bytes of a file: ELF, PE, Mach-O (64-bit, byte-swapped), a file of
\* two bytes "MZ", a shell script "#!/bin/s", a text "# Tool.."
ElfHeader == <<127, 69, 76, 70, 2, 1, 1, 0>>
PeHeader == <<77, 90, 144, 0>>
MachOHeader == <<207, 250, 237, 254, 7, 0, 0, 1>>
PeStub == <<77, 90>>
ScriptHeader == <<35, 33, 47, 98, 105, 110, 47, 115>>
TextHeader == <<35, 32, 84, 111, 111, 108, 10, 10>>

Headers == {ElfHeader, PeHeader, MachOHeader, PeStub, ScriptHeader}

\* state.go:353-410.  The 32-bit magic is compared byte by byte.
IsBinaryExecutable(header) ==
    LET n == IF Len(header) < 16 THEN Len(header) ELSE 16
    IN  IF n < 4 THEN FALSE
        ELSE \/ header[1] = 127 /\ header[2] = 69 /\ header[3] = 76 /\ header[4] = 70
             \/ header[1] = 77 /\ header[2] = 90
             \/ SubSeq(header, 1, 4) \in { <<254, 237, 250, 206>>, <<206, 250, 237, 254>>,
                                           <<254, 237, 250, 207>>, <<207, 250, 237, 254>> }

\* state.go:431-446: "Skip obviously non-executable files"
SkippedName(name) ==
    \/ \E suffix \in { <<".","t","x","t">>, <<".","m","d">>, <<".","j","s","o","n">>, <<".","y","a","m","l">>, <<".","y","m","l">>, <<".","c","f","g">>, <<".","c","o","n","f">>,
                       <<".","l","o","g">>, <<".","L","I","C","E","N","S","E">>, <<"L","I","C","E","N","S","E">>, <<"R","E","A","D","M","E">>, <<".","t","a","r",".","g","z">>, <<".","z","i","p">> } :
          HasSuffix(name, suffix)
    \/ Contains(name, <<".","1">>)

\* state.go:449-453: "Skip completion scripts and common script directories"
SkippedPath(path, name) ==
    \/ Contains(path, <<"c","o","m","p","l","e","t","i","o","n","/">>)
    \/ Contains(path, <<"/","c","o","m","p","l","e","t","i","o","n","/">>)
    \/ HasPrefix(name, <<"_">>)

\* state.go:468-488: the names that make a file a candidate
IsCandidateName(name) ==
    \/ ~ Contains(Base(name), <<".">>)
    \/ \E suffix \in { <<".","e","x","e">>, <<".","b","i","n">>, <<".","a","p","p">> } : HasSuffix(name, suffix)
    \/ /\ Contains(Base(name), <<"-">>)
       /\ \E word \in { <<"l","i","n","u","x">>, <<"d","a","r","w","i","n">>, <<"w","i","n","d","o","w","s">>, <<"a","m","d","6","4">>, <<"x","8","6","_","6","4">>, <<"a","r","m","6","4">> } :
             Contains(Base(name), word)

\* state.go:500-504: the second look at an executable file
NotCompletion(path, name) ==
    /\ ~ HasPrefix(name, <<"_">>)
    /\ ~ Contains(path, <<"c","o","m","p","l","e","t","i","o","n">>)
    /\ ~ Contains(path, <<"b","a","s","h","_","c","o","m","p","l","e","t","i","o","n">>)

\* what the walk and the loops make of each path, by its name alone
WalkClass ==
    [ i \in PathIds |->
        LET path == TempDir \o <<"/">> \o TreePaths[i]
            name == Base(TreePaths[i])
        IN  [ visited   |-> ~ SkippedName(name) /\ ~ SkippedPath(path, name),
              candidate |-> IsCandidateName(name),
              plain     |-> NotCompletion(path, Base(path)) ] ]

\* the paths of the tree in walk order
Walk(tree) ==
    LET InTree(i) == i \in DOMAIN tree
    IN  SelectSeq([i \in PathIds |-> i], InTree)

\* mutation of PickTier: an executable script is preferred to a binary
PickTierScriptFirst(binaries, scripts, candidates, last, chmodOk) ==
    IF scripts # <<>> THEN [err |-> "none", path |-> <<scripts[1]>>, chmod |-> FALSE]
    ELSE IF binaries # <<>>
      THEN [err |-> "none", path |-> <<binaries[1]>>, chmod |-> FALSE]
    ELSE IF candidates # <<>>
      THEN IF chmodOk THEN [err |-> "none", path |-> <<candidates[1]>>, chmod |-> TRUE]
           ELSE [err |-> "chmod", path |-> <<>>, chmod |-> FALSE]
    ELSE IF last # <<>>
      THEN IF chmodOk THEN [err |-> "none", path |-> <<last[1]>>, chmod |-> TRUE]
           ELSE [err |-> "chmod", path |-> <<>>, chmod |-> FALSE]
    ELSE [err |-> "notfound", path |-> <<>>, chmod |-> FALSE]

\* state.go:496-535: the four returns in their order, then the error.
\* `binaries` is binaryExecutables, `scripts` the executable files that pass
\* the second look, `candidates` the candidate files that are binaries,
\* `last` the one file of the tree if it is a binary.
PickTier(binaries, scripts, candidates, last, chmodOk) ==
    IF binaries # <<>> THEN [err |-> "none", path |-> <<binaries[1]>>, chmod |-> FALSE]
    ELSE IF scripts # <<>>
      THEN [err |-> "none", path |-> <<scripts[1]>>, chmod |-> FALSE]
    ELSE IF candidates # <<>>
      THEN IF chmodOk THEN [err |-> "none", path |-> <<candidates[1]>>, chmod |-> TRUE]
           ELSE [err |-> "chmod", path |-> <<>>, chmod |-> FALSE]
    ELSE IF last # <<>>
      THEN IF chmodOk THEN [err |-> "none", path |-> <<last[1]>>, chmod |-> TRUE]
           ELSE [err |-> "chmod", path |-> <<>>, chmod |-> FALSE]
    ELSE [err |-> "notfound", path |-> <<>>, chmod |-> FALSE]

\* state.go:413-536.  `chmodOk`: os.Chmod succeeds.
FindExecutable(tree, chmodOk) ==
    LET allFiles == Walk(tree)
        Binary(i) == IsBinaryExecutable(tree[i].header)
        IsBin(i) == WalkClass[i].visited /\ Binary(i)
        IsExec(i) == WalkClass[i].visited /\ ~ Binary(i) /\ tree[i].exec
        IsCand(i) == /\ WalkClass[i].visited /\ ~ Binary(i) /\ ~ tree[i].exec
                     /\ WalkClass[i].candidate
        Plain(i) == WalkClass[i].plain
        binaryExecutables == SelectSeq(allFiles, IsBin)
        executableFiles == SelectSeq(allFiles, IsExec)
        candidateFiles == SelectSeq(allFiles, IsCand)
    IN  PickTier(binaryExecutables,
                 SelectSeq(executableFiles, Plain),
                 SelectSeq(candidateFiles, Binary),
                 IF Len(allFiles) = 1 /\ Binary(allFiles[1]) THEN allFiles ELSE <<>>,
                 chmodOk)

(***************************************************************************)
(* Temporary paths, as sequences of path components below os.TempDir().    *)
(***************************************************************************)
\* commands.go:131: the extraction directory of a get
getExtractPath == <<"install-release", "extract">>

\* commands.go:333: the extraction directory of a candidate of an upgrade
upgradeExtractPath(name) == <<"install-release", "extract", name>>

\* part_008:375-381: where ExtractRelease downloads the asset to
downloadPath(asset) == <<"install-release", AssetFiles[asset.file].name>>

(***************************************************************************)
(* ArchiveInstaller: Extract.  A path is the sequence of its components    *)
(* (the string split at "/"); an absolute entry name starts with the empty *)
(* component.  A file system is a function from the paths that were        *)
(* created to "dir" or "file"; the extraction directory and the            *)
(* directories above it exist from the start.                              *)
(***************************************************************************)
\* extractPath of a get, from the root of the file system
ExtractRoot == <<"tmp">> \o getExtractPath

\* filepath.Clean of a rooted path: "" and "." are dropped, ".." removes the
\* component before it and is dropped at the root
RECURSIVE CleanFrom(_, _)
CleanFrom(done, rest) ==
    IF rest = <<>> THEN done
    ELSE IF Head(rest) \in {"", "."} THEN CleanFrom(done, Tail(rest))
    ELSE IF Head(rest) = ".."
      THEN CleanFrom(IF done = <<>> THEN done ELSE SubSeq(done, 1, Len(done) - 1),
                     Tail(rest))
    ELSE CleanFrom(Append(done, Head(rest)), Tail(rest))

\* filepath.Join(dir, name): Clean(dir + "/" + name)
Join(dir, name) == CleanFrom(<<>>, dir \o name)

\* filepath.Dir
Dir(path) == IF path = <<>> THEN path ELSE SubSeq(path, 1, Len(path) - 1)

IsPrefix(p, path) == Len(p) <= Len(path) /\ SubSeq(path, 1, Len(p)) = p

\* what is at `path`: "dir", "file" or "none"
KindAt(fs, path) ==
    IF path \in DOMAIN fs THEN fs[path]
    ELSE IF IsPrefix(path, ExtractRoot) THEN "dir"
    ELSE "none"

Prefixes(path) == {SubSeq(path, 1, n) : n \in 0..Len(path)}

\* os.MkdirAll(path): fails when a component of the path is a file, else
\* creates the directories that are missing
MkdirAll(fs, path) ==
    IF \E q \in Prefixes(path) : KindAt(fs, q) = "file" THEN [ok |-> FALSE, fs |-> fs]
    ELSE [ok |-> TRUE,
          fs |-> [q \in DOMAIN fs \cup {r \in Prefixes(path) : KindAt(fs, r) = "none"} |->
                    IF q \in DOMAIN fs THEN fs[q] ELSE "dir"]]

\* os.OpenFile(path, O_CREATE|...): fails on a directory, else the file is there
OpenFile(fs, path) ==
    IF KindAt(fs, path) = "dir" THEN [ok |-> FALSE, fs |-> fs]
    ELSE [ok |-> TRUE, fs |-> [q \in DOMAIN fs \cup {path} |-> IF q = path THEN "file" ELSE fs[q]]]

\* state.go:199-222, 246-269, 283-314: one entry of the archive.  The tar
\* readers handle directories and regular files and pass over every other
\* type; the zip reader writes whatever is not a directory as a file.
ExtractEntry(format, fs, entry) ==
    LET target == Join(ExtractRoot, entry.name)
    IN  IF entry.type = "dir" THEN MkdirAll(fs, target)
        ELSE IF entry.type = "file" \/ format = "zip"
          THEN LET made == MkdirAll(fs, Dir(target))
               IN  IF made.ok THEN OpenFile(made.fs, target) ELSE made
        ELSE [ok |-> TRUE, fs |-> fs]

\* the loop over the entries: the first error ends it
RECURSIVE ExtractEntries(_, _, _)
ExtractEntries(format, fs, entries) ==
    IF entries = <<>> THEN [ok |-> TRUE, fs |-> fs]
    ELSE LET one == ExtractEntry(format, fs, Head(entries))
         IN  IF one.ok THEN ExtractEntries(format, one.fs, Tail(entries)) ELSE one

(***************************************************************************)
(* State.                                                                  *)
(***************************************************************************)
VARIABLES
    \* ---- environment
    file,               \* the state file: "missing", "ok" or "corrupt"
    disk,               \* the entries of the state file when it is "ok"
    upstream,           \* repository -> its published releases, newest first
    bins,               \* the names n with a file at installPath/n
    tmp,                \* tool name -> assets extracted in .../extract/<name>; in
                        \* SpecFind, the tree under the extraction directory; in
                        \* SpecExtract, the file system: path -> "dir" or "file"
    \* ---- the running command
    cmd,                \* the running command: "none", "get", "upgrade", "hold", "rm"
    pc,                 \* "idle", "done", or the position of upgradeCmd's main goroutine
    mem,                \* sm.state of the running command
    items,              \* what state.Items() returned to upgradeCmd
    force,              \* the --force flag of upgrade
    cfgPre,             \* config.GetPreRelease()
    todo,               \* keys the range loop over items has not visited yet
    wg,                 \* sync.WaitGroup counter
    sem,                \* number of tokens in the semaphore channel
    mu,                 \* <<>> or <<key>>: the holder of the mutex
    wpc,                \* key -> position of that key's check goroutine
    wcand,              \* key -> <<>> or <<UpgradeInfo>> the goroutine built
    wsnap,              \* key -> the slice value the goroutine's append read
    availableUpgrades,  \* the shared candidate list
    idx,                \* the apply loop's index into availableUpgrades
    cstep,              \* candidate index -> step of its loop body
    exe,                \* <<>> or <<asset>>: whose file FindExecutable returned; in
                        \* SpecSelect, what GetRelease returned; in SpecFind, <<>>
                        \* or <<path>>
    result,             \* what the last command returned: "none", "ok", "error"
    \* ---- history, read by the properties only
    failed,             \* the step whose error the command returned, "none" if it
                        \* returned none
    wres,               \* key -> what its check goroutine found
    stepErr,            \* candidate index -> the step of its body that returned an
                        \* error, "none" if no step did
    installed,          \* key of the state file -> <<asset>> that the install which
                        \* wrote the entry copied to installPath
    lastCmd             \* what the previous command was and, for an upgrade, what it
                        \* loaded and listed; reset when a release is published

env == <<file, disk, upstream, bins, tmp>>
flags == <<force, cfgPre, items>>
locals == <<cmd, mem, force, cfgPre, items>>
checkVars == <<todo, wg, sem, mu, wpc, wcand, wsnap, wres>>
applyVars == <<idx, cstep, exe, stepErr>>
vars == <<file, disk, upstream, bins, tmp, cmd, pc, mem, items, force, cfgPre,
          todo, wg, sem, mu, wpc, wcand, wsnap, availableUpgrades, idx, cstep, exe,
          result, failed, wres, stepErr, installed, lastCmd>>

(***************************************************************************)
(* The repositories and the state files of the specifications.             *)
(***************************************************************************)
\* repository r is hosted by turns on github, gitlab and an unsupported host
HostOf(r) == IF r % 3 = 1 THEN "github" ELSE IF r % 3 = 2 THEN "gitlab" ELSE "other"

ToolKey(r) == IrKeyString(MkUrl(HostOf(r), r, FALSE), r)

\* a well-formed state entry: the release installed at `tag`, with one asset
Entry(r, tag, hold) ==
    [ url    |-> MkUrl(HostOf(r), r, FALSE),
      tag    |-> tag,
      pre    |-> FALSE,
      assets |-> << MkAsset("tgz", MkUrl(HostOf(r), r, FALSE), tag) >>,
      hold   |-> hold ]

RepoOf(url) == [host |-> url.host, repo |-> url.repo]

\* the releases the repository of `url` has published
Ups(url) == IF RepoOf(url) \in DOMAIN upstream THEN upstream[RepoOf(url)] ELSE <<>>

IdleLocals ==
    /\ cmd = "none"
    /\ pc = "idle"
    /\ mem = EmptyState /\ items = EmptyState
    /\ force = FALSE /\ cfgPre = FALSE
    /\ todo = {} /\ wg = 0 /\ sem = 0 /\ mu = <<>>
    /\ wpc = <<>> /\ wcand = <<>> /\ wsnap = <<>> /\ wres = <<>>
    /\ availableUpgrades = <<>>
    /\ idx = 0 /\ cstep = <<>> /\ exe = <<>> /\ stepErr = <<>>
    /\ result = "none" /\ failed = "none"

(***************************************************************************)
(* upgradeCmd: start, and the check phase.                                 *)
(***************************************************************************)
\* commands.go:190-206: load state and config, return early on no items
UpgradeStartWith(cfgOk) ==
    /\ pc = "idle"
    /\ cmd' = "upgrade"
    /\ \E f \in BOOLEAN, p \in BOOLEAN :
         LET loaded == Load(file, disk)
         IN  \/ /\ LoadFails(file) \/ ~ cfgOk
                /\ pc' = "done" /\ result' = "error"
                /\ failed' = IF LoadFails(file) THEN "load" ELSE "config"
                /\ UNCHANGED <<mem, flags, todo, wpc, wcand, wsnap, wres>>
             \/ /\ ~ LoadFails(file) /\ cfgOk /\ DOMAIN loaded = {}
                /\ pc' = "done" /\ result' = "ok"
                /\ UNCHANGED <<mem, flags, todo, wpc, wcand, wsnap, wres, failed>>
             \/ /\ ~ LoadFails(file) /\ cfgOk /\ DOMAIN loaded # {}
                /\ mem' = loaded /\ items' = loaded
                /\ force' = f /\ cfgPre' = p
                /\ todo' = DOMAIN loaded
                /\ wpc' = [k \in DOMAIN loaded |-> "none"]
                /\ wcand' = [k \in DOMAIN loaded |-> <<>>]
                /\ wsnap' = [k \in DOMAIN loaded |-> <<>>]
                /\ wres' = [k \in DOMAIN loaded |-> "none"]
                /\ pc' = "spawn" /\ result' = "none"
                /\ UNCHANGED failed
    /\ UNCHANGED <<env, wg, sem, mu, availableUpgrades, applyVars, installed, lastCmd>>

\* config.Load() succeeds or fails
UpgradeStart == \E cfgOk \in BOOLEAN : UpgradeStartWith(cfgOk)

\* mutation of Spawns: the HoldUpdate test is missing
SpawnsHeldToo(release) == TRUE

\* commands.go:237-239: is a goroutine spawned for this entry?
Spawns(release) == ~ release.hold

\* commands.go:227-291: one iteration of the range loop over items
SpawnNext(k) ==
    /\ pc = "spawn"
    /\ k \in todo
    /\ todo' = todo \ {k}
    /\ IF Spawns(items[k])
         THEN /\ wg' = wg + 1
              /\ wpc' = [wpc EXCEPT ![k] = "acquire"]
         ELSE UNCHANGED <<wg, wpc>>
    /\ pc' = IF todo' = {} THEN "wait" ELSE "spawn"
    /\ UNCHANGED <<env, locals, sem, mu, wcand, wsnap, wres,
                   availableUpgrades, applyVars, result, failed, installed, lastCmd>>

\* mutation of CanAcquire: the send never blocks
CanAcquireUnbounded(n) == TRUE

\* commands.go:246: semaphore <- struct{}{} blocks while the channel is full
CanAcquire(n) == n < maxConcurrent

Acquire(k) ==
    /\ k \in DOMAIN wpc /\ wpc[k] = "acquire"
    /\ CanAcquire(sem)
    /\ sem' = sem + 1
    /\ wpc' = [wpc EXCEPT ![k] = "fetch"]
    /\ UNCHANGED <<env, pc, locals, todo, wg, mu, wcand, wsnap, wres,
                   availableUpgrades, applyVars, result, failed, installed, lastCmd>>

\* mutation of UpdateAvailable: the force flag is not consulted
UpdateAvailableNoForce(latestTag, storedTag, f) == latestTag # storedTag

\* mutation of UpdateAvailable: the tags are not compared
UpdateAvailableAlways(latestTag, storedTag, f) == TRUE

\* commands.go:270: is an update available?
UpdateAvailable(latestTag, storedTag, f) == latestTag # storedTag \/ f

\* commands.go:279-287
UpgradeInfo(key, release, latestRelease, asset) ==
    [ name           |-> KeyName(key),
      currentVersion |-> release.tag,
      newVersion     |-> latestRelease.tag,
      release        |-> latestRelease,
      asset          |-> asset,
      repoURL        |-> release.url,
      key            |-> key ]

\* commands.go:251-276: what the goroutine of `key` finds, given whether the
\* API request succeeds: <<outcome, candidate>>
CheckOutcome(key, release, apiOk) ==
    IF ~ GetRepoInfoOk(release.url) THEN <<"urlerr", <<>>>>
    ELSE LET ans == ReleaseOf(release.url, Ups(release.url), 0, cfgPre)
         IN  IF ~ apiOk \/ ans.err THEN <<"apierr", <<>>>>
             ELSE IF Len(ans.rels) = 0 THEN <<"empty", <<>>>>
             ELSE LET latestRelease == ans.rels[1]
                      asset == GetRelease(ans.rels)
                  IN  IF ~ UpdateAvailable(latestRelease.tag, release.tag, force)
                        THEN <<"same", <<>>>>
                      ELSE IF asset = <<>> THEN <<"noasset", <<>>>>
                      ELSE <<"cand", <<UpgradeInfo(key, release, latestRelease, asset[1])>>>>

\* mutation of AfterFetch: an early return does not give the token back
AfterFetchKeepsToken(cand) == IF cand = <<>> THEN "wgdone" ELSE "lock"

\* mutation of AfterFetch: an early return runs no deferred call
AfterFetchNoDefer(cand) == IF cand = <<>> THEN "done" ELSE "lock"

\* commands.go:243-247, 252-276: an early return runs the deferred calls, the
\* goroutine with a candidate goes on to mu.Lock()
AfterFetch(cand) == IF cand = <<>> THEN "release" ELSE "lock"

Fetch(k) ==
    /\ k \in DOMAIN wpc /\ wpc[k] = "fetch"
    /\ \E apiOk \in BOOLEAN :
         LET out == CheckOutcome(k, items[k], apiOk)
         IN  /\ wres' = [wres EXCEPT ![k] = out[1]]
             /\ wcand' = [wcand EXCEPT ![k] = out[2]]
             /\ wpc' = [wpc EXCEPT ![k] = AfterFetch(out[2])]
    /\ UNCHANGED <<env, pc, locals, todo, wg, sem, mu, wsnap,
                   availableUpgrades, applyVars, result, failed, installed, lastCmd>>

\* mutation of CanLock: mu.Lock() never blocks
CanLockAlways(holder) == TRUE

\* commands.go:278: mu.Lock() blocks while another goroutine holds the mutex
CanLock(holder) == holder = <<>>

\* mu.Lock(), then append reads the slice
Lock(k) ==
    /\ k \in DOMAIN wpc /\ wpc[k] = "lock"
    /\ CanLock(mu)
    /\ mu' = <<k>>
    /\ wsnap' = [wsnap EXCEPT ![k] = availableUpgrades]
    /\ wpc' = [wpc EXCEPT ![k] = "append"]
    /\ UNCHANGED <<env, pc, locals, todo, wg, sem, wcand, wres,
                   availableUpgrades, applyVars, result, failed, installed, lastCmd>>

\* append writes the slice back, then mu.Unlock()
AppendUnlock(k) ==
    /\ k \in DOMAIN wpc /\ wpc[k] = "append"
    /\ availableUpgrades' = Append(wsnap[k], wcand[k][1])
    /\ wsnap' = [wsnap EXCEPT ![k] = <<>>]
    /\ mu' = IF mu = <<k>> THEN <<>> ELSE mu
    /\ wpc' = [wpc EXCEPT ![k] = "release"]
    /\ UNCHANGED <<env, pc, locals, todo, wg, sem, wcand, wres,
                   applyVars, result, failed, installed, lastCmd>>

\* commands.go:247: the deferred <-semaphore, on every return path
ReleaseSem(k) ==
    /\ k \in DOMAIN wpc /\ wpc[k] = "release"
    /\ sem' = sem - 1
    /\ wpc' = [wpc EXCEPT ![k] = "wgdone"]
    /\ UNCHANGED <<env, pc, locals, todo, wg, mu, wcand, wsnap, wres,
                   availableUpgrades, applyVars, result, failed, installed, lastCmd>>

\* commands.go:243: the deferred wg.Done()
Done(k) ==
    /\ k \in DOMAIN wpc /\ wpc[k] = "wgdone"
    /\ wg' = wg - 1
    /\ wpc' = [wpc EXCEPT ![k] = "done"]
    /\ UNCHANGED <<env, pc, locals, todo, sem, mu, wcand, wsnap, wres,
                   availableUpgrades, applyVars, result, failed, installed, lastCmd>>

\* mutation of WaitReturns: wg.Wait() is missing
WaitReturnsAtOnce(counter) == TRUE

\* commands.go:294: wg.Wait() returns when the counter is zero
WaitReturns(counter) == counter = 0

\* commands.go:294-297, 377-381
Wait ==
    /\ pc = "wait"
    /\ WaitReturns(wg)
    /\ IF Len(availableUpgrades) > 0
         THEN pc' = "prompt" /\ UNCHANGED <<result, failed>>
         ELSE pc' = "done" /\ result' = "ok" /\ UNCHANGED failed
    /\ UNCHANGED <<env, locals, checkVars, availableUpgrades, applyVars,
                   installed, lastCmd>>

(***************************************************************************)
(* upgradeCmd: the prompt and the apply phase.                             *)
(***************************************************************************)
\* commands.go:297-322; the --yes flag (skipPrompt) is read here and nowhere else
Prompt ==
    /\ pc = "prompt"
    /\ \E skipPrompt \in BOOLEAN, answer \in {"yes", "no", "error"} :
         \/ /\ skipPrompt \/ answer = "yes"
            /\ pc' = "apply"
            /\ idx' = 1
            /\ cstep' = [i \in 1..Len(availableUpgrades) |-> "pending"]
            /\ stepErr' = [i \in 1..Len(availableUpgrades) |-> "none"]
            /\ UNCHANGED <<result, failed>>
         \/ /\ ~ skipPrompt /\ answer = "error"
            /\ pc' = "done" /\ result' = "error" /\ failed' = "prompt"
            /\ UNCHANGED <<idx, cstep, stepErr>>
         \/ /\ ~ skipPrompt /\ answer = "no"
            /\ pc' = "done" /\ result' = "ok"
            /\ UNCHANGED <<idx, cstep, stepErr, failed>>
    /\ UNCHANGED <<env, locals, checkVars, availableUpgrades, exe,
                   installed, lastCmd>>

\* mutation of CanStart: every body runs in a goroutine of its own
CanStartAny(i, index) == TRUE

\* commands.go:325: the for statement runs the body of the candidate its
\* index is at, and of no other
CanStart(i, index) == i = index

\* commands.go:325-330: the body of candidate i begins
ApplyBegin(i) ==
    /\ pc = "apply"
    /\ i \in DOMAIN cstep /\ cstep[i] = "pending"
    /\ CanStart(i, idx)
    /\ cstep' = [cstep EXCEPT ![i] = "mkdir"]
    /\ UNCHANGED <<env, pc, locals, checkVars, availableUpgrades, idx, exe,
                   stepErr, result, failed, installed, lastCmd>>

\* mutation of Continue: the failed body is run again
ContinueRetry(i) ==
    /\ cstep' = [cstep EXCEPT ![i] = "mkdir"]
    /\ idx' = idx
    /\ exe' = <<>>

\* `continue` after an error: the body of candidate i is over
Continue(i) ==
    /\ cstep' = [cstep EXCEPT ![i] = "failed"]
    /\ idx' = idx + 1
    /\ exe' = <<>>

\* commands.go:333-338: Mkdir(tempDir)
ApplyMkdir(i) ==
    /\ pc = "apply" /\ i \in DOMAIN cstep /\ cstep[i] = "mkdir"
    /\ LET name == availableUpgrades[i].name
       IN  \E ok \in BOOLEAN :
             \/ /\ ok
                /\ tmp' = IF name \in DOMAIN tmp THEN tmp
                          ELSE [n \in DOMAIN tmp \cup {name} |->
                                   IF n = name THEN {} ELSE tmp[n]]
                /\ cstep' = [cstep EXCEPT ![i] = "extract"]
                /\ UNCHANGED <<idx, exe, stepErr>>
             \/ /\ ~ ok
                /\ stepErr' = [stepErr EXCEPT ![i] = "mkdir"]
                /\ Continue(i)
                /\ UNCHANGED tmp
    /\ UNCHANGED <<file, disk, upstream, bins, pc, locals, checkVars,
                   availableUpgrades, result, failed, installed, lastCmd>>

\* commands.go:341-344: ExtractRelease(upgrade.asset, tempDir); a failed
\* extraction may have written some of the asset's files already
ApplyExtract(i) ==
    /\ pc = "apply" /\ i \in DOMAIN cstep /\ cstep[i] = "extract"
    /\ LET name == availableUpgrades[i].name
           asset == availableUpgrades[i].asset
           written == [tmp EXCEPT ![name] = @ \cup {asset}]
       IN  \E ok \in BOOLEAN, partial \in BOOLEAN :
             \/ /\ ok /\ ~ partial
                /\ tmp' = written
                /\ cstep' = [cstep EXCEPT ![i] = "find"]
                /\ UNCHANGED <<idx, exe, stepErr>>
             \/ /\ ~ ok
                /\ tmp' = IF partial THEN written ELSE tmp
                /\ stepErr' = [stepErr EXCEPT ![i] = "extract"]
                /\ Continue(i)
    /\ UNCHANGED <<file, disk, upstream, bins, pc, locals, checkVars,
                   availableUpgrades, result, failed, installed, lastCmd>>

\* commands.go:355-359: FindExecutable(tempDir) returns a file of the tree
ApplyFind(i) ==
    /\ pc = "apply" /\ i \in DOMAIN cstep /\ cstep[i] = "find"
    /\ LET name == availableUpgrades[i].name
       IN  \/ /\ \E a \in tmp[name] : exe' = <<a>>
              /\ cstep' = [cstep EXCEPT ![i] = "install"]
              /\ UNCHANGED <<idx, stepErr>>
           \/ /\ stepErr' = [stepErr EXCEPT ![i] = "find"]
              /\ Continue(i)
    /\ UNCHANGED <<env, pc, locals, checkVars, availableUpgrades,
                   result, failed, installed, lastCmd>>

\* CopyFile to installPath/name
Installs(b, name) == b \cup {name}

\* commands.go:362-367: InstallBin; a failure may come after the copy (chmod)
ApplyInstall(i) ==
    /\ pc = "apply" /\ i \in DOMAIN cstep /\ cstep[i] = "install"
    /\ LET name == availableUpgrades[i].name
       IN  \E ok \in BOOLEAN, copied \in BOOLEAN :
             \/ /\ ok /\ copied
                /\ bins' = Installs(bins, name)
                /\ cstep' = [cstep EXCEPT ![i] = "set"]
                /\ UNCHANGED <<idx, exe, stepErr>>
             \/ /\ ~ ok
                /\ bins' = IF copied THEN Installs(bins, name) ELSE bins
                /\ stepErr' = [stepErr EXCEPT ![i] = "install"]
                /\ Continue(i)
    /\ UNCHANGED <<file, disk, upstream, tmp, pc, locals, checkVars,
                   availableUpgrades, result, failed, installed, lastCmd>>

\* mutation of StoredRelease: the release keeps the assets upstream lists
StoredReleaseFull(release, asset) == release

\* commands.go:370: upgrade.release.Assets = []ReleaseAssets{*upgrade.asset}
StoredRelease(release, asset) == [release EXCEPT !.assets = <<asset>>]

\* commands.go:369-375: reduce the release to the asset, SetItem, next candidate
ApplySet(i) ==
    /\ pc = "apply" /\ i \in DOMAIN cstep /\ cstep[i] = "set"
    /\ LET u == availableUpgrades[i]
       IN  /\ mem' = SetItem(mem, u.key, StoredRelease(u.release, u.asset))
           /\ disk' = mem'
           /\ file' = "ok"
           /\ installed' = MapSet(installed, u.key, exe)
    /\ cstep' = [cstep EXCEPT ![i] = "ok"]
    /\ idx' = idx + 1
    /\ exe' = <<>>
    /\ UNCHANGED <<upstream, bins, tmp, cmd, pc, flags, checkVars, availableUpgrades,
                   stepErr, result, failed, lastCmd>>

\* commands.go:376-381: the loop is over; the deferred RemoveDir calls run
ApplyEnd ==
    /\ pc = "apply"
    /\ idx > Len(availableUpgrades)
    /\ tmp' = << >>
    /\ pc' = "done" /\ result' = "ok"
    /\ UNCHANGED <<failed, file, disk, upstream, bins, locals, checkVars,
                   availableUpgrades, applyVars, installed, lastCmd>>

\* the process exits: nothing of it survives but the files
Exit ==
    /\ pc = "done"
    /\ pc' = "idle"
    /\ cmd' = "none"
    /\ mem' = EmptyState /\ items' = EmptyState
    /\ force' = FALSE /\ cfgPre' = FALSE
    /\ todo' = {} /\ wg' = 0 /\ sem' = 0 /\ mu' = <<>>
    /\ wpc' = <<>> /\ wcand' = <<>> /\ wsnap' = <<>> /\ wres' = <<>>
    /\ availableUpgrades' = <<>>
    /\ idx' = 0 /\ cstep' = <<>> /\ exe' = <<>> /\ stepErr' = <<>>
    /\ result' = "none" /\ failed' = "none"
    /\ lastCmd' = [cmd     |-> IF cmd = "upgrade" THEN "upgrade" ELSE "other",
                   checked |-> DOMAIN wpc # {},
                   cands   |-> availableUpgrades,
                   forced  |-> force,
                   pre     |-> cfgPre,
                   mem     |-> items]
    /\ UNCHANGED <<env, installed>>

Worker(k) ==
    \/ Acquire(k) \/ Fetch(k) \/ Lock(k) \/ AppendUnlock(k)
    \/ ReleaseSem(k) \/ Done(k)

Apply(i) ==
    \/ ApplyBegin(i) \/ ApplyMkdir(i) \/ ApplyExtract(i) \/ ApplyFind(i)
    \/ ApplyInstall(i) \/ ApplySet(i)

Upgrade ==
    \/ UpgradeStart
    \/ \E k \in todo : SpawnNext(k)
    \/ \E k \in DOMAIN wpc : Worker(k)
    \/ Wait
    \/ Prompt
    \/ \E i \in DOMAIN cstep : Apply(i)
    \/ ApplyEnd
    \/ Exit

(***************************************************************************)
(* SpecUpgrade: one run of the upgrade command on a state file that is     *)
(* already populated: the "rich" file has NumRich tools with any hold      *)
(* flags and stored tags.  SpecCheck, below, runs the check phase on the   *)
(* "wide" file: NumWide tools, none held, more goroutines than semaphore   *)
(* tokens.                                                                 *)
(***************************************************************************)
Tags == 1..MaxTag

UpRelease(tag, pre, files) == [tag |-> tag, pre |-> pre, files |-> files]

\* newest first: every tag from MaxTag down to 1, with the given files
RECURSIVE History(_, _)
History(tag, files) ==
    IF tag = 0 THEN <<>>
    ELSE <<UpRelease(tag, FALSE, files)>> \o History(tag - 1, GoodFiles)

SampleHistories ==
    { History(MaxTag, GoodFiles), History(MaxTag, BadFiles), <<>> }

NoLastCmd ==
    [cmd |-> "none", checked |-> FALSE, cands |-> <<>>, forced |-> FALSE,
     pre |-> FALSE, mem |-> EmptyState]

\* the stored tag of a tool is never read when the tool is held or its host
\* unsupported: it is kept at 1
RichStates ==
    { [r \in 1..NumRich |->
         Entry(r, IF holdOf[r] \/ HostOf(r) = "other" THEN 1 ELSE tagOf[r], holdOf[r])] :
        tagOf \in [1..NumRich -> {1, MaxTag}],
        holdOf \in [1..NumRich -> BOOLEAN] }

WideState == [r \in 1..NumWide |-> Entry(r, IF r = 1 THEN 1 ELSE MaxTag, FALSE)]

\* the state file whose entries are those of `st` (tool r under ToolKey(r))
FileOf(st) ==
    [k \in {ToolKey(r) : r \in DOMAIN st} |->
        st[CHOOSE r \in DOMAIN st : ToolKey(r) = k]]

InitFrom(states) ==
    /\ file = "ok"
    /\ \E st \in states :
         /\ disk = FileOf(st)
         /\ \E hub \in SampleHistories, lab \in SampleHistories :
              upstream = [x \in {RepoOf(KeyUrl(ToolKey(r))) : r \in DOMAIN st} |->
                             IF x.host = "github" THEN hub ELSE lab]
    /\ bins = {KeyName(k) : k \in DOMAIN disk}
    /\ tmp = << >>
    /\ IdleLocals
    /\ installed = [k \in DOMAIN disk |-> <<disk[k].assets[1]>>]
    /\ lastCmd = NoLastCmd

\* the state file is absent, or present but not decodable
InitDamaged ==
    /\ file \in {"missing", "corrupt"}
    /\ disk = EmptyState
    /\ upstream = << >>
    /\ bins = {}
    /\ tmp = << >>
    /\ IdleLocals
    /\ installed = << >>
    /\ lastCmd = NoLastCmd

InitUpgrade == InitFrom(RichStates) \/ InitDamaged

\* one run of the command; no repository of this specification has a
\* pre-release, the pre-release setting is left off
NextUpgrade ==
    \/ lastCmd.cmd = "none" /\ UpgradeStart /\ ~ cfgPre'
    \/ \E k \in todo : SpawnNext(k)
    \/ \E k \in DOMAIN wpc : Worker(k)
    \/ Wait
    \/ Prompt
    \/ \E i \in DOMAIN cstep : Apply(i)
    \/ ApplyEnd
    \/ Exit

SpecUpgrade == InitUpgrade /\ [][NextUpgrade]_vars

(***************************************************************************)
(* SpecCheck: the check phase alone, on the wide state file.               *)
(***************************************************************************)
InitCheck ==
    /\ InitFrom({WideState})
    /\ \A x \in DOMAIN upstream : upstream[x] = History(MaxTag, GoodFiles)

\* the range loop takes the entries of the wide file by ascending repository,
\* the goroutines are scheduled freely
FirstOf(keys) == CHOOSE k \in keys : \A j \in keys : KeyName(k) <= KeyName(j)

\* the command is run without --force, pre-releases not configured, and the
\* API answers every request
NextCheck ==
    \/ lastCmd.cmd = "none" /\ UpgradeStart /\ ~ cfgPre' /\ ~ force'
    \/ todo # {} /\ SpawnNext(FirstOf(todo))
    \/ \E k \in DOMAIN wpc : Worker(k) /\ wres'[k] # "apierr"
    \/ Wait

SpecCheck == InitCheck /\ [][NextCheck]_vars

\* SpecCheck with the scheduler's guarantee: a goroutine that can take a step
\* (the main goroutine, or a check goroutine whose request has returned or
\* whose channel send or lock can proceed) eventually takes one
SpecCheckLive ==
    /\ SpecCheck
    /\ WF_vars(todo # {} /\ SpawnNext(FirstOf(todo)))
    /\ WF_vars(\E k \in DOMAIN wpc : Worker(k))
    /\ WF_vars(Wait)

(***************************************************************************)
(* getCmd, holdCmd, removeCmd.  Each is one process that runs alone, from   *)
(* its first statement to its return.                                      *)
(***************************************************************************)
\* what a single command leaves of its locals; `step` is its step that failed
Returned(c, res, step) ==
    /\ cmd' = c
    /\ pc' = "done"
    /\ result' = res
    /\ failed' = step
    /\ UNCHANGED <<mem, flags, checkVars, availableUpgrades, applyVars, lastCmd>>

\* commands.go:66-79: the name given with -n (0: none), else the last path
\* segment of the URL without its trailing "/"
ToolName(url, name) == IF name # 0 THEN name ELSE url.repo

\* the steps of getCmd that can fail for a reason outside the program
GetFaults ==
    { "none", "config", "repository", "release", "prompt", "declined",
      "mkdir", "extract", "find", "install", "chmod" }

\* commands.go:31-160: the first step of getCmd that returns an error, in the
\* order of the code, "none" if no step does.  `asset` is what GetRelease
\* returned for `releases`, `fault` is the step the environment fails
\* ("chmod": InstallBin fails after it copied the file).
GetFailure(url, releases, asset, apiErr, fault) ==
    IF fault = "config" THEN "config"
    ELSE IF ~ GetRepoInfoOk(url) THEN "repoinfo"
    ELSE IF fault = "repository" THEN "repository"
    ELSE IF fault = "release" \/ apiErr THEN "release"
    ELSE IF Len(releases) = 0 THEN "noreleases"
    ELSE IF asset = <<>> THEN "select"
    ELSE IF fault \in {"prompt", "mkdir", "extract", "find"} THEN fault
    ELSE IF fault \in {"install", "chmod"} THEN "install"
    ELSE "none"

\* mutation of Aborts: the error of InstallBin is not returned
AbortsButInstall(failure) == failure \notin {"none", "install"}

\* commands.go:34-160: `if err != nil { return fmt.Errorf(...) }` after each step
Aborts(failure) == failure # "none"

\* commands.go:28-168.  `pre` is config.GetPreRelease().
Get(url, tagName, name, pre, fault) ==
    /\ pc = "idle"
    /\ LET ans      == ReleaseOf(url, Ups(url), tagName, pre)
           releases == ans.rels
           asset    == GetRelease(releases)
           destName == ToolName(url, name)
           failure  == GetFailure(url, releases, asset, ans.err, fault)
           copied   == failure = "none" \/ fault = "chmod"
       IN  IF Aborts(failure)
             THEN /\ Returned("get", "error", failure)
                  /\ bins' = IF copied THEN Installs(bins, destName) ELSE bins
                  /\ UNCHANGED <<file, disk, upstream, tmp, installed>>
           ELSE IF fault = "declined"
             THEN /\ Returned("get", "ok", failure)
                  /\ UNCHANGED <<env, installed>>
           ELSE /\ Returned("get", "ok", failure)
                /\ bins' = Installs(bins, destName)
                /\ disk' = SetByName(NewStateManager, url, destName,
                                     StoredRelease(releases[1], asset[1]))
                /\ file' = "ok"
                /\ installed' = [k \in DOMAIN disk' |-> asset]
                /\ UNCHANGED <<upstream, tmp>>

\* the ways to give the --unset flag of hold: not at all, bare, with a value
HoldFlags == {"", "--unset", "--unset=false"}

\* commands.go:668: BoolVar(&unset, "unset", true, ...): the flag is true when
\* it is not given
UnsetValue(flagArg) == flagArg # "--unset=false"

\* mutation of HeldRelease: the entry is rebuilt, its assets are not carried over
HeldReleaseBare(release, unset) == [release EXCEPT !.hold = ~ unset, !.assets = <<>>]

\* commands.go:652-658
HeldRelease(release, unset) == [release EXCEPT !.hold = ~ unset]

\* commands.go:637-665.  GetByName returns one of the entries named `name`.
Hold(name, flagArg) ==
    /\ pc = "idle"
    /\ LET loaded == Load(file, disk)
           step   == IF LoadFails(file) THEN "load"
                     ELSE IF GetByName(loaded, name) = {} THEN "notfound"
                     ELSE "none"
       IN  IF step # "none"
             THEN /\ Returned("hold", "error", step)
                  /\ UNCHANGED <<env, installed>>
           ELSE \E key \in GetByName(loaded, name) :
                  /\ Returned("hold", "ok", step)
                  /\ disk' = SetItem(loaded, key,
                                     HeldRelease(loaded[key], UnsetValue(flagArg)))
                  /\ file' = "ok"
                  /\ UNCHANGED <<upstream, bins, tmp, installed>>

\* mutation of RemoveFailure: the error of RemoveFile is not returned
RemoveFailureButFile(f, loaded, name, cfgOk, rmOk) ==
    IF LoadFails(f) THEN "load"
    ELSE IF ~ cfgOk THEN "config"
    ELSE IF GetByName(loaded, name) = {} THEN "notfound"
    ELSE "none"

\* commands.go:474-499: the first step of removeCmd that returns an error
RemoveFailure(f, loaded, name, cfgOk, rmOk) ==
    IF LoadFails(f) THEN "load"
    ELSE IF ~ cfgOk THEN "config"
    ELSE IF GetByName(loaded, name) = {} THEN "notfound"
    ELSE IF name \in bins /\ ~ rmOk THEN "remove"
    ELSE "none"

\* commands.go:471-506
Remove(name, cfgOk, rmOk) ==
    /\ pc = "idle"
    /\ LET loaded == Load(file, disk)
           step   == RemoveFailure(file, loaded, name, cfgOk, rmOk)
       IN  IF step # "none"
             THEN /\ Returned("rm", "error", step)
                  /\ UNCHANGED <<env, installed>>
           ELSE \E key \in GetByName(loaded, name) :
                  /\ Returned("rm", "ok", step)
                  /\ bins' = bins \ {name}
                  /\ disk' = DelItem(loaded, key)
                  /\ file' = "ok"
                  /\ installed' = [k \in DOMAIN disk' |-> installed[k]]
                  /\ UNCHANGED <<upstream, tmp>>

(***************************************************************************)
(* The environment: a repository publishes a release.  A release published *)
(* while a command runs is seen by the command's one fetch as published    *)
(* before or after the command, so releases appear between commands.       *)
(***************************************************************************)
RECURSIVE Published(_)
Published(repos) ==
    IF repos = {} THEN 0
    ELSE LET x == CHOOSE y \in repos : TRUE
         IN  Len(upstream[x]) + Published(repos \ {x})

Publish(repo, pre, files) ==
    /\ pc = "idle"
    /\ Published(DOMAIN upstream) < MaxTag
    /\ upstream' = [upstream EXCEPT
                      ![repo] = <<UpRelease(Len(@) + 1, pre, files)>> \o @]
    /\ UNCHANGED <<file, disk, bins, tmp, cmd, pc, mem, flags, checkVars,
                   availableUpgrades, applyVars, result, failed, installed>>
    /\ lastCmd' = [NoLastCmd EXCEPT !.cmd = "other"]

(***************************************************************************)
(* Spec: every command, starting with no state file.                       *)
(***************************************************************************)
\* the repositories of Spec: 1 on github, 2 on gitlab, 3 on an unsupported host
SpecRepos == {1, 2, 3}

TypedUrls == {MkUrl(HostOf(r), r, FALSE) : r \in SpecRepos}

\* tool names given on the command line (0: no -n)
NameArgs == {0, 1}

ReleaseKinds == { <<FALSE, GoodFiles>>, <<TRUE, GoodFiles>>, <<FALSE, BadFiles>> }

Init ==
    /\ file = "missing"
    /\ disk = EmptyState
    /\ upstream = [x \in {RepoOf(u) : u \in {v \in TypedUrls : GetRepoInfoOk(v)}} |-> <<>>]
    /\ bins = {}
    /\ tmp = << >>
    /\ IdleLocals
    /\ installed = << >>
    /\ lastCmd = NoLastCmd

\* the faults of the steps of getCmd that follow the prompt
LateFaults == {"none", "declined", "install", "chmod"}

\* a get or an rm that returns an error leaves the same files whichever step
\* failed: Spec keeps one failing step of each, SpecTools below has them all
Next ==
    \/ \E url \in TypedUrls, t \in {0} \cup Tags, n \in NameArgs, pre \in BOOLEAN,
          fault \in LateFaults :
          Get(url, t, n, pre, fault) /\ failed' \in {"none", "install"}
    \/ \E n \in SpecRepos, flagArg \in HoldFlags : Hold(n, flagArg)
    \/ \E n \in SpecRepos, cfgOk \in BOOLEAN, rmOk \in BOOLEAN :
          Remove(n, cfgOk, rmOk) /\ failed' \in {"none", "notfound"}
    \/ \E repo \in DOMAIN upstream, kind \in ReleaseKinds : Publish(repo, kind[1], kind[2])
    \/ Upgrade

Spec == Init /\ [][Next]_vars

(***************************************************************************)
(* SpecTools: get, hold and rm, one after the other, on the rich state     *)
(* file or on a missing or undecodable one.                                *)
(***************************************************************************)
InitTools == InitFrom(RichStates) \/ InitDamaged

\* no repository of this specification has a pre-release: the pre-release
\* setting is left off
NextTools ==
    \/ \E url \in TypedUrls, t \in {0} \cup Tags, n \in NameArgs, fault \in GetFaults :
          Get(url, t, n, FALSE, fault)
    \/ \E n \in 1..NumRich, flagArg \in HoldFlags : Hold(n, flagArg)
    \/ \E n \in 1..NumRich, cfgOk \in BOOLEAN, rmOk \in BOOLEAN : Remove(n, cfgOk, rmOk)
    \/ Exit

SpecTools == InitTools /\ [][NextTools]_vars

(***************************************************************************)
(* SpecSelect: the asset selector alone.  The input is a list of no, one   *)
(* or two releases of one repository carrying at most MaxAssets assets in  *)
(* all, any files in any order; GetRelease is applied to it once.          *)
(***************************************************************************)
SelRepo == MkUrl("github", 1, FALSE)

\* every sequence of at most `most` asset files
AssetLists(most) == UNION { [1..n -> FileIds] : n \in 0..most }

\* the release lists: none, one release, or two with the assets cut anywhere
ReleaseLists(most) ==
    { <<>> }
      \cup { <<UpRelease(1, FALSE, files)>> : files \in AssetLists(most) }
      \cup UNION { { <<UpRelease(2, FALSE, SubSeq(files, 1, c)),
                       UpRelease(1, FALSE, SubSeq(files, c + 1, Len(files)))>> :
                       files \in {fs \in AssetLists(most) : Len(fs) >= c} } :
                    c \in 0..most }

InitSelect ==
    /\ file = "missing"
    /\ disk = EmptyState
    /\ upstream \in [{RepoOf(SelRepo)} -> ReleaseLists(MaxAssets)]
    /\ bins = {}
    /\ tmp = << >>
    /\ IdleLocals
    /\ installed = << >>
    /\ lastCmd = NoLastCmd

\* the releases as the caller hands them to GetRelease
SelReleases == [i \in 1..Len(Ups(SelRepo)) |-> MkRelease(SelRepo, Ups(SelRepo)[i])]

\* part_008:159-186: one call of GetRelease(releases, url, nil)
Select ==
    /\ pc = "idle"
    /\ cmd' = "select"
    /\ pc' = "done"
    /\ exe' = GetRelease(SelReleases)
    /\ failed' = GetReleaseError(SelReleases)
    /\ result' = IF failed' = "none" THEN "ok" ELSE "error"
    /\ UNCHANGED <<env, mem, flags, checkVars, availableUpgrades, idx, cstep, stepErr,
                   installed, lastCmd>>

NextSelect == Select \/ Exit

SpecSelect == InitSelect /\ [][NextSelect]_vars

(***************************************************************************)
(* SpecFind: the executable search alone.  The input is a tree of at most  *)
(* MaxFiles files: any of the paths, each file with any of the headers, a  *)
(* documentation file being a text without the executable bit.  The        *)
(* permission of a file is read by IsExecutable only, after                *)
(* IsBinaryExecutable has said no (state.go:458-467): a file with a binary *)
(* header starts without the bit, which makes os.Chmod visible, any other  *)
(* file has either permission.  FindExecutable is applied to the tree.     *)
(***************************************************************************)
TreeFile(header, exec) == [header |-> header, exec |-> exec]

TreeFiles ==
    {TreeFile(h, x) : h \in Headers, x \in BOOLEAN} \
      {TreeFile(h, TRUE) : h \in {b \in Headers : IsBinaryExecutable(b)}}

Trees(most) ==
    UNION { { [i \in ps |-> IF i \in Docs THEN TreeFile(TextHeader, FALSE) ELSE t[i]] :
                t \in [ps \ Docs -> TreeFiles] } :
            ps \in {s \in SUBSET PathIds : Cardinality(s) <= most} }

InitFind ==
    /\ file = "missing"
    /\ disk = EmptyState
    /\ upstream = << >>
    /\ bins = {}
    /\ tmp \in Trees(MaxFiles)
    /\ IdleLocals
    /\ installed = << >>
    /\ lastCmd = NoLastCmd

\* state.go:413-536: one call of FindExecutable(tempDir); os.Chmod(path, 0755)
\* leaves the file executable
Find ==
    /\ pc = "idle"
    /\ cmd' = "find"
    /\ pc' = "done"
    /\ \E chmodOk \in BOOLEAN :
         LET found == FindExecutable(tmp, chmodOk)
         IN  /\ exe' = found.path
             /\ failed' = found.err
             /\ result' = IF found.err = "none" THEN "ok" ELSE "error"
             /\ tmp' = IF found.chmod THEN [tmp EXCEPT ![found.path[1]].exec = TRUE]
                       ELSE tmp
    /\ UNCHANGED <<file, disk, upstream, bins, mem, flags, checkVars, availableUpgrades,
                   idx, cstep, stepErr, installed, lastCmd>>

NextFind == Find \/ Exit

SpecFind == InitFind /\ [][NextFind]_vars

(***************************************************************************)
(* SpecGet: the get command on repositories that publish pre-releases,     *)
(* the URL typed with or without a trailing "/", with or without a tag.    *)
(***************************************************************************)
\* the URLs of the repositories of Spec as the user can type them
GetUrls == {MkUrl(HostOf(r), r, s) : r \in SpecRepos, s \in BOOLEAN}

\* newest first: the tags from `tag` down to 1, each a pre-release or not
RECURSIVE PreHistories(_)
PreHistories(tag) ==
    IF tag = 0 THEN { <<>> }
    ELSE { <<UpRelease(tag, pre, GoodFiles)>> \o older :
             pre \in BOOLEAN, older \in PreHistories(tag - 1) }

InitGet ==
    /\ file = "missing"
    /\ disk = EmptyState
    /\ upstream \in [{RepoOf(u) : u \in {v \in TypedUrls : GetRepoInfoOk(v)}} ->
                       UNION {PreHistories(n) : n \in 0..MaxTag}]
    /\ bins = {}
    /\ tmp = << >>
    /\ IdleLocals
    /\ installed = << >>
    /\ lastCmd = NoLastCmd

\* no step of the command fails for a reason outside the program
NextGet ==
    \/ \E url \in GetUrls, t \in {0} \cup Tags, n \in NameArgs, pre \in BOOLEAN :
          Get(url, t, n, pre, "none")
    \/ Exit

SpecGet == InitGet /\ [][NextGet]_vars

(***************************************************************************)
(* SpecExtract: the extraction of one archive of at most MaxEntries        *)
(* entries, each any of the names below as a directory, a regular file or  *)
(* another type, from a tar.gz, a tar or a zip.                            *)
(***************************************************************************)
\* tool, bin/tool, ../tool, ../../tool, bin/../../tool, /etc/tool, bin
EntryNames ==
    { <<"tool">>, <<"bin", "tool">>, <<"..", "tool">>, <<"..", "..", "tool">>,
      <<"bin", "..", "..", "tool">>, <<"", "etc", "tool">>, <<"bin">> }

Entries == {[name |-> n, type |-> t] : n \in EntryNames, t \in {"dir", "file", "link"}}

Archives(most) == UNION { [1..n -> Entries] : n \in 0..most }

InitExtract ==
    /\ file = "missing"
    /\ disk = EmptyState
    /\ upstream = << >>
    /\ bins = {}
    /\ tmp = << >>
    /\ IdleLocals
    /\ installed = << >>
    /\ lastCmd = NoLastCmd

\* state.go:162-318: Extract(archivePath, extractPath) on the archive `entries`
Extract(format, entries) ==
    /\ pc = "idle"
    /\ cmd' = "extract"
    /\ pc' = "done"
    /\ LET out == ExtractEntries(format, tmp, entries)
       IN  /\ tmp' = out.fs
           /\ result' = IF out.ok THEN "ok" ELSE "error"
           /\ failed' = IF out.ok THEN "none" ELSE "extract"
    /\ UNCHANGED <<file, disk, upstream, bins, mem, flags, checkVars, availableUpgrades,
                   applyVars, installed, lastCmd>>

\* one archive is extracted, into the empty directory
NextExtract ==
    \/ \E format \in {"targz", "tar", "zip"}, entries \in Archives(MaxEntries) :
          lastCmd.cmd = "none" /\ Extract(format, entries)
    \/ Exit

SpecExtract == InitExtract /\ [][NextExtract]_vars

(***************************************************************************)
(* Properties.                                                             *)
(***************************************************************************)
\* the keys of the candidates in the shared list
CandKeys == {availableUpgrades[i].key : i \in DOMAIN availableUpgrades}

\* the outcomes of a check goroutine that count as a failed check
Failures == {"urlerr", "apierr", "empty"}

\* the goroutines between acquiring and releasing the semaphore
InFlight == {k \in DOMAIN wpc : wpc[k] \in {"fetch", "lock", "append", "release"}}

\* the main goroutine is past wg.Wait()
PastWait == cmd = "upgrade" /\ DOMAIN wpc # {} /\ pc \in {"prompt", "apply", "done"}

\* the check phase is over and the apply phase has not changed anything yet
CheckFinished ==
    /\ cmd = "upgrade" /\ DOMAIN wpc # {}
    /\ pc = "prompt" \/ (pc = "done" /\ cstep = <<>>)

\* what upstream answers to the check of entry k of state st
LatestOf(st, k, pre) == ReleaseOf(st[k].url, Ups(st[k].url), 0, pre)

\* C1: no check goroutine is spawned for a held entry and no held tool is
\* ever in the candidate list, with or without force; the list is never
\* longer than the number of tools that are not held (3 tools, 1 held: at
\* most 2 candidates).
C1_HeldNeverCandidate ==
    cmd = "upgrade" =>
      /\ \A k \in DOMAIN wpc :
           mem[k].hold => wpc[k] = "none" /\ wres[k] = "none" /\ k \notin CandKeys
      /\ Len(availableUpgrades) <= Cardinality({k \in DOMAIN wpc : ~ mem[k].hold})

C1_Witness ==
    /\ pc = "prompt" /\ force
    /\ Cardinality(DOMAIN mem) = 3
    /\ Cardinality({k \in DOMAIN mem : mem[k].hold}) = 1
    /\ Len(availableUpgrades) = 2

\* C2: in every reachable state of the check phase at most 5 goroutines are
\* between acquiring and releasing the semaphore.
C2_AtMostFiveInFlight == Cardinality(InFlight) <= 5 /\ sem <= 5

C2_Witness ==
    /\ Cardinality(InFlight) = 5
    /\ \E k \in DOMAIN wpc : wpc[k] = "acquire"

\* C3: while a check goroutine is still to be spawned or has not finished,
\* the main goroutine stays before or in wg.Wait() (it does not read the
\* candidate list), no apply step starts and neither the state nor the
\* install directory nor the temporary directory changes.
C3_JoinBarrier ==
    [][ (todo # {} \/ \E k \in DOMAIN wpc : wpc[k] \notin {"none", "done"})
          => /\ pc' \in {"spawn", "wait"}
             /\ UNCHANGED <<file, disk, bins, tmp, mem, idx, cstep, exe>> ]_vars

C3_Witness == pc = "wait" /\ wg > 0 /\ Len(availableUpgrades) > 0

\* C4: at most one candidate is in a step of its body at any time, and a
\* candidate's body starts only when the bodies of all earlier candidates
\* have succeeded or failed.
C4_ApplySequential ==
    /\ Cardinality({i \in DOMAIN cstep :
                      cstep[i] \in {"mkdir", "extract", "find", "install", "set"}}) <= 1
    /\ \A i \in DOMAIN cstep :
         cstep[i] # "pending" => \A j \in 1..(i - 1) : cstep[j] \in {"ok", "failed"}

C4_Witness ==
    \E i \in DOMAIN cstep :
       i > 1 /\ cstep[i] \in {"extract", "find", "install", "set"} /\ cstep[1] = "ok"

\* C5: a tool whose check failed (unsupported URL, API error, empty release
\* list) is not a candidate; when every goroutine has returned the barrier is
\* open; past the barrier every tool not held has been checked; the command
\* returns an error only after a candidate was found (from the prompt); and
\* when every check failed the list is empty and the command returned without
\* error.
C5_CheckFailuresOmitOnly ==
    cmd = "upgrade" =>
      /\ \A k \in DOMAIN wres :
           wres[k] \in Failures => k \notin CandKeys /\ wcand[k] = <<>>
      /\ (todo = {} /\ \A k \in DOMAIN wpc : wpc[k] \in {"none", "done"})
           => wg = 0 /\ sem = 0
      /\ PastWait => \A k \in DOMAIN wpc : ~ mem[k].hold => wres[k] # "none"
      /\ (PastWait /\ result = "error") => availableUpgrades # <<>>
      /\ (PastWait /\ \A k \in DOMAIN wpc : ~ mem[k].hold => wres[k] \in Failures)
           => availableUpgrades = <<>> /\ pc = "done" /\ result = "ok"

C5_Witness ==
    /\ PastWait
    /\ \E k \in DOMAIN wres : wres[k] = "urlerr"
    /\ \E k \in DOMAIN wres : wres[k] = "empty"
    /\ \E k \in DOMAIN wres : wres[k] = "cand" /\ k \in CandKeys

\* C6 as stated: for every tool not held whose fetch succeeded, the finished
\* check added a candidate exactly when the fetched tag differs from the
\* stored tag or force is set.
C6_CandidateIffNewer ==
    (cmd = "upgrade" /\ pc \in {"spawn", "wait", "prompt"}) =>
      \A k \in DOMAIN wpc :
        (wpc[k] = "done" /\ wres[k] \in {"same", "noasset", "cand"})
          => (k \in CandKeys
                <=> (LatestOf(mem, k, cfgPre).rels[1].tag # mem[k].tag \/ force))

\* C6 amended: for every tool not held whose fetch succeeded, the finished
\* check added a candidate exactly when the fetched tag differs from the
\* stored tag or force is set, and asset selection over the fetched releases
\* found a suitable asset.
C6_CandidateIffNewerWithAsset ==
    (cmd = "upgrade" /\ pc \in {"spawn", "wait", "prompt"}) =>
      \A k \in DOMAIN wpc :
        (wpc[k] = "done" /\ wres[k] \in {"same", "noasset", "cand"})
          => (k \in CandKeys
                <=> /\ LatestOf(mem, k, cfgPre).rels[1].tag # mem[k].tag \/ force
                    /\ GetRelease(LatestOf(mem, k, cfgPre).rels) # <<>>)

C6_Witness ==
    /\ pc = "prompt"
    /\ \E k \in DOMAIN wpc : wpc[k] = "done" /\ wres[k] = "noasset"
    /\ \E k \in DOMAIN wpc : wpc[k] = "done" /\ wres[k] = "cand" /\ k \in CandKeys

\* this run and the run before it are two checks in a row without force,
\* with nothing published and no other command in between
TwoChecksInARow ==
    /\ CheckFinished /\ ~ force
    /\ lastCmd.cmd = "upgrade" /\ lastCmd.checked /\ ~ lastCmd.forced

\* no tool of st that is not held has a latest upstream release whose tag
\* differs from the stored tag
InSync(st, pre) ==
    \A k \in DOMAIN st :
      ~ st[k].hold =>
         LET ans == LatestOf(st, k, pre)
         IN  ans.err \/ ans.rels = <<>> \/ ans.rels[1].tag = st[k].tag

\* C7 as stated: two checks in a row, without force and with no new upstream
\* release in between, both yield an empty candidate list.
C7_CheckIdempotent ==
    TwoChecksInARow => lastCmd.cands = <<>> /\ availableUpgrades = <<>>

\* C7 amended: two checks in a row, without force and with no new upstream
\* release in between, both yield an empty candidate list provided that at
\* each check no tool that is not held has a latest upstream release whose
\* tag differs from its stored tag.
C7_CheckIdempotentInSync ==
    (TwoChecksInARow /\ InSync(lastCmd.mem, lastCmd.pre) /\ InSync(mem, cfgPre))
       => lastCmd.cands = <<>> /\ availableUpgrades = <<>>

C7_Witness ==
    /\ TwoChecksInARow /\ InSync(lastCmd.mem, lastCmd.pre) /\ InSync(mem, cfgPre)
    /\ \E k \in DOMAIN lastCmd.mem : ~ lastCmd.mem[k].hold
    /\ \E k \in DOMAIN wres : wres[k] = "same"

\* C8: once a step of candidate i has returned an error, the body of i is
\* over for good (no retry) and the loop has moved on; the entry of i is the
\* one loaded (old tag, old asset); the entry of every candidate that
\* succeeded is the new one; and the command ends with every candidate
\* processed.
C8_ApplyFailureSkipsOnly ==
    \A i \in DOMAIN stepErr :
      stepErr[i] # "none" =>
        /\ cstep[i] = "failed" /\ idx > i
        /\ disk[availableUpgrades[i].key]
             = Entry(KeyName(availableUpgrades[i].key),
                     availableUpgrades[i].currentVersion, FALSE)
        /\ \A j \in DOMAIN cstep :
             cstep[j] = "ok" =>
               disk[availableUpgrades[j].key]
                 = [availableUpgrades[j].release EXCEPT
                      !.assets = <<availableUpgrades[j].asset>>]
        /\ pc = "done" => \A j \in DOMAIN cstep : cstep[j] \in {"ok", "failed"}

C8_Witness ==
    /\ pc = "done"
    /\ \E i \in DOMAIN stepErr, j \in DOMAIN cstep :
         i < j /\ stepErr[i] = "install" /\ cstep[j] = "ok"

\* C9: after the body of a candidate succeeded, the state file holds, under
\* the candidate's key, the latest upstream release with the new tag and the
\* selected asset as its only asset; the file has the keys that were loaded,
\* no more and no fewer.
C9_ApplySuccessReplacesEntry ==
    \A i \in DOMAIN cstep :
      cstep[i] = "ok" =>
        LET u == availableUpgrades[i]
            latest == ReleaseOf(u.repoURL, Ups(u.repoURL), 0, cfgPre).rels[1]
        IN  /\ file = "ok" /\ disk = mem
            /\ u.key \in DOMAIN disk
            /\ disk[u.key] = [latest EXCEPT !.assets = <<u.asset>>]
            /\ disk[u.key].tag = u.newVersion
            /\ DOMAIN disk = DOMAIN wpc

C9_Witness ==
    /\ Cardinality(DOMAIN disk) >= 2
    /\ \E i \in DOMAIN cstep :
         /\ cstep[i] = "ok"
         /\ availableUpgrades[i].currentVersion # availableUpgrades[i].newVersion

\* C10: whatever commands have run since the empty state, every release in
\* the state file has exactly one asset, the asset whose executable was
\* installed.
C10_OneInstalledAsset ==
    file = "ok" =>
      \A k \in DOMAIN disk :
        /\ Len(disk[k].assets) = 1
        /\ k \in DOMAIN installed /\ installed[k] = disk[k].assets

C10_Witness ==
    /\ pc = "idle" /\ lastCmd.cmd = "upgrade" /\ lastCmd.cands # <<>>
    /\ \E k \in DOMAIN disk :
         /\ k = lastCmd.cands[1].key
         /\ disk[k].tag = lastCmd.cands[1].newVersion
         /\ disk[k].tag # lastCmd.cands[1].currentVersion

\* a single command (get, hold, rm) runs in one step from idle to done
Ran(c) == pc = "idle" /\ pc' = "done" /\ cmd' = c

\* the entries the state file holds, as a later Load reads them
Persisted == Load(file, disk)

\* C11: when a step of get fails (configuration, repository lookup, release
\* fetch, asset selection, prompt, temporary directory, download and
\* extraction, executable search, binary install), get returns an error and
\* the state file is as it was.
C11_GetFailureKeepsState ==
    [][ (Ran("get") /\ failed' # "none")
          => (result' = "error" /\ disk' = disk /\ file' = file) ]_vars

\* the InstallBin of a get failed beside a state file of several tools
C11_Witness ==
    /\ cmd = "get" /\ pc = "done"
    /\ failed = "install" /\ result = "error"
    /\ file = "ok" /\ Cardinality(DOMAIN disk) > 1

\* C12: a get, upgrade or hold that succeeds removes no entry: every key the
\* state file had when the command read it (for get and hold: when the command
\* started) is a key of the file when the command returns, and a get or hold
\* changes the entry of one tool at most.
C12_NeverPruned ==
    [][ (pc' = "done" /\ result' = "ok" /\ cmd' \in {"get", "upgrade", "hold"})
          => LET before == IF cmd' = "upgrade" THEN items ELSE Persisted
             IN  /\ \A k \in DOMAIN before : k \in DOMAIN disk'
                 /\ cmd' # "upgrade" =>
                      Cardinality({k \in DOMAIN before : disk'[k] # before[k]}) <= 1 ]_vars

\* the state `st` without the entry under `key`
Without(st, key) == [k \in DOMAIN st \ {key} |-> st[k]]

\* C13: a hold that succeeds changes the holdUpdate flag of the entry of the
\* named tool and nothing else: the keys of the state file are the same, the
\* url, tag, pre-release flag and single asset of that entry are the same, and
\* every other entry is the same.
C13_HoldChangesFlagOnly ==
    [][ (Ran("hold") /\ result' = "ok")
          => \A n \in 1..NumRich, flagArg \in HoldFlags :
               Hold(n, flagArg)
                 => /\ DOMAIN disk' = DOMAIN Persisted
                    /\ \E key \in GetByName(Persisted, n) :
                         \A k \in DOMAIN Persisted :
                           disk'[k] = IF k = key
                                        THEN [Persisted[k] EXCEPT !.hold = disk'[k].hold]
                                        ELSE Persisted[k] ]_vars

\* a hold succeeded on a file of several tools, some held and some not
C13_Witness ==
    /\ cmd = "hold" /\ pc = "done" /\ result = "ok"
    /\ Cardinality(DOMAIN disk) > 1
    /\ \E k \in DOMAIN disk : disk[k].hold /\ Len(disk[k].assets) = 1
    /\ \E k \in DOMAIN disk : ~ disk[k].hold

\* C14: `hold NAME` without flags leaves the tool NAME held, `hold --unset
\* NAME` leaves it not held (the check phase, C1, then skips it or checks it).
C14_HoldSetsUnsetClears ==
    [][ (Ran("hold") /\ result' = "ok")
          => \A n \in 1..NumRich :
               /\ Hold(n, "") => \E k \in GetByName(disk', n) : disk'[k].hold
               /\ Hold(n, "--unset") => \E k \in GetByName(disk', n) : ~ disk'[k].hold ]_vars

\* C15: an rm of an installed tool deletes the entry of that tool and no
\* other, persists the result and leaves no binary under the tool's name; an
\* rm of a name without an entry, or of a tool whose binary cannot be removed,
\* returns an error and leaves the state file and the binaries as they were.
C15_RemoveDeletesOneEntry ==
    [][ Ran("rm")
          => \A n \in 1..NumRich, cfgOk \in BOOLEAN, rmOk \in BOOLEAN :
               Remove(n, cfgOk, rmOk)
                 => /\ result' = "ok" =>
                         /\ file' = "ok"
                         /\ \E key \in GetByName(Persisted, n) :
                              disk' = Without(Persisted, key)
                         /\ bins' = bins \ {n}
                    /\ (GetByName(Persisted, n) = {} \/ (n \in bins /\ ~ rmOk)) =>
                         /\ result' = "error"
                         /\ disk' = disk /\ file' = file /\ bins' = bins ]_vars

\* an rm removed one tool of several, its entry and its binary
C15_Witness ==
    /\ cmd = "rm" /\ pc = "done" /\ result = "ok"
    /\ disk # EmptyState
    /\ \E n \in 1..NumRich : n \notin bins /\ GetByName(disk, n) = {}

\* C16: loading the state file never fails, whether the file is missing or
\* does not decode: no command returns the error of Load, and an upgrade on
\* such a file whose configuration loads returns without error, as it does
\* when nothing is installed.
C16_LoadNeverFails ==
    /\ failed # "load"
    /\ (pc = "done" /\ cmd = "upgrade" /\ file # "ok" /\ failed # "config")
         => (result = "ok" /\ availableUpgrades = <<>>)

\* GetRelease has returned in SpecSelect
Selected == cmd = "select" /\ pc = "done"

\* the assets of the input in iteration order
SelAssets == FlattenAssets(SelReleases)

\* C17: on an empty release list the selector fails with the no-releases
\* error; on releases none of whose assets scores above zero it fails with
\* the no-suitable-asset error; it returns no asset in either case.
C17_SelectErrors ==
    Selected =>
      /\ SelReleases = <<>> => (failed = "noreleases" /\ exe = <<>>)
      /\ (SelReleases # <<>> /\ \A i \in DOMAIN SelAssets : AssetScore(SelAssets[i]) <= 0)
           => (failed = "nosuitable" /\ exe = <<>>)

\* the selector failed on two releases that carry assets, none of them suitable
C17_Witness ==
    /\ Selected
    /\ Len(SelReleases) = 2 /\ Len(SelAssets) >= 2
    /\ failed = "nosuitable" /\ exe = <<>>

\* the file ids of the input's assets in iteration order
SelFiles == [i \in DOMAIN SelAssets |-> SelAssets[i].file]

\* C18: on linux/amd64, given tool-linux-amd64.tar.gz and
\* tool-windows-amd64.zip in either order (in one release or in two), the
\* selector returns the tar.gz.
C18_LinuxArchiveOverWindowsZip ==
    (Selected /\ SelFiles \in { <<"ltgz", "zip">>, <<"zip", "ltgz">> })
      => (failed = "none" /\ Len(exe) = 1 /\ exe[1].file = "ltgz")

\* the zip came first, in the newer release, and the tar.gz was returned
C18_Witness ==
    /\ Selected
    /\ SelFiles = <<"zip", "ltgz">> /\ Len(SelReleases[1].assets) = 1
    /\ exe = <<SelAssets[2]>>

\* the names of d and t differ in the extension only: .deb against .tar.gz
Sibling(d, t) ==
    /\ HasSuffix(d.name, DotDeb) /\ HasSuffix(t.name, DotTarGz)
    /\ SubSeq(d.name, 1, Len(d.name) - Len(DotDeb))
         = SubSeq(t.name, 1, Len(t.name) - Len(DotTarGz))

C20_HighestScoreFirstSeen ==
    (Selected /\ exe # <<>>) =>
      \E b \in DOMAIN SelAssets :
        /\ SelAssets[b] = exe[1]
        /\ \A i \in DOMAIN SelAssets : AssetScore(SelAssets[i]) <= AssetScore(SelAssets[b])
        /\ \A i \in 1..(b - 1) : AssetScore(SelAssets[i]) < AssetScore(SelAssets[b])

\* two different files of two releases tie for the highest score, after a
\* lower one; the first of the two was returned
C20_Witness ==
    /\ Selected
    /\ Len(SelReleases) = 2
    /\ \E i \in DOMAIN SelAssets, j \in DOMAIN SelAssets :
         /\ 1 < i /\ i < j
         /\ SelFiles[i] # SelFiles[j]
         /\ SelAssets[i].of # SelAssets[j].of
         /\ AssetScore(SelAssets[i]) = AssetScore(SelAssets[j])
         /\ AssetScore(SelAssets[1]) < AssetScore(SelAssets[i])
         /\ exe = <<SelAssets[i]>>

\* a step that is one call of FindExecutable
Finding == pc = "idle" /\ cmd' = "find"

\* the files of the tree whose first bytes are a known binary signature
Signed(tree) == {i \in DOMAIN tree : IsBinaryExecutable(tree[i].header)}

\* C21: when the tree holds one file with the ELF signature and, besides it,
\* only .md and .txt files, the search returns the ELF file, whatever its name
\* is (os.Chmod not failing).
C21_ElfFoundWhateverName ==
    [][ (/\ Finding
         /\ failed' # "chmod"
         /\ \E i \in DOMAIN tmp : tmp[i].header = ElfHeader /\ (DOMAIN tmp \ {i}) \subseteq Docs)
        => \E i \in DOMAIN tmp : tmp[i].header = ElfHeader /\ exe' = <<i>> ]_vars

\* the files the walk does not skip
Kept(tree) == {i \in DOMAIN tree : WalkClass[i].visited}

\* the tiers, over the files the walk does not skip
TierA(tree) == Kept(tree) \cap Signed(tree)
TierB(tree) == {i \in Kept(tree) : tree[i].exec /\ WalkClass[i].plain}
TierC(tree) == {i \in Kept(tree) \cap Signed(tree) : WalkClass[i].candidate}

\* the last tier: the one file of `files`, if it is alone and signed
Sole(files, tree) ==
    IF Cardinality(files) = 1 /\ files \subseteq Signed(tree) THEN files ELSE {}

\* `found` and `err` are what the first tier that is not empty gives
FromFirstTier(tiers, found, err) ==
    LET used == {n \in DOMAIN tiers : tiers[n] # {}}
    IN  IF used = {} THEN found = <<>> /\ err = "notfound"
        ELSE LET first == CHOOSE n \in used : \A m \in used : n <= m
             IN  err = "none" /\ \E i \in tiers[first] : found = <<i>>

HasTag(url, t) == \E i \in DOMAIN Ups(url) : Ups(url)[i].tag = t

\* C23: Release(tag, includePrerelease) with a tag that is not empty and that
\* a release of the repository carries returns exactly one release, for
\* either value of includePrerelease, the release a pre-release or not
\* (stated of the repositories a get has just queried).
C23_TaggedReleaseReturned ==
    (cmd = "get" /\ pc = "done") =>
        \A url \in {u \in GetUrls : GetRepoInfoOk(u)}, t \in Tags, pre \in BOOLEAN :
            HasTag(url, t) =>
                LET ans == ReleaseOf(url, Ups(url), t, pre)
                IN  ~ ans.err /\ Len(ans.rels) = 1

\* C24: in the persisted state the URL part of every key is the url stored
\* in the key's entry.
C24_KeyUrlIsEntryUrl ==
    \A k \in DOMAIN Persisted : KeyUrl(k) = Persisted[k].url

\* the candidates of the running upgrade whose install has begun
Installing == {i \in DOMAIN cstep : cstep[i] # "pending"}

\* C25: two installs of one upgrade run never use the same download path or
\* the same extraction directory.
C25_TempPathsUnique ==
    \A i \in Installing, j \in Installing :
        i # j =>
            /\ downloadPath(availableUpgrades[i].asset)
                 # downloadPath(availableUpgrades[j].asset)
            /\ upgradeExtractPath(availableUpgrades[i].name)
                 # upgradeExtractPath(availableUpgrades[j].name)

\* the goroutines that built a candidate
Adders == {k \in DOMAIN wcand : wcand[k] # <<>>}

\* C26: past the join the candidate list holds exactly one candidate for
\* each goroutine that built one, and no other; each candidate carries the
\* key, the tool name, the stored tag and the latest release of its own tool.
C26_NoLostNoDuplicateCandidate ==
    PastWait =>
      /\ Len(availableUpgrades) = Cardinality(Adders)
      /\ \A k \in Adders :
           Cardinality({i \in DOMAIN availableUpgrades : availableUpgrades[i].key = k}) = 1
      /\ \A i \in DOMAIN availableUpgrades :
           LET u == availableUpgrades[i]
           IN  /\ u.key \in Adders
               /\ u.name = KeyName(u.key)
               /\ u.currentVersion = items[u.key].tag
               /\ u.release = LatestOf(items, u.key, cfgPre).rels[1]

\* two goroutines each added a candidate
C26_Witness == PastWait /\ Len(availableUpgrades) = 2 /\ Cardinality(Adders) = 2

\* C27: in every persisted entry the stored asset is an asset of the release
\* whose tag is stored.
C27_StoredAssetOfStoredTag ==
    \A k \in DOMAIN Persisted :
        \A i \in DOMAIN Persisted[k].assets : Persisted[k].assets[i].of = Persisted[k].tag

\* C28: an entry whose hold flag is true keeps the flag and its stored tag
\* over every step, except a step of rm that removes the entry and a step of
\* hold that clears the flag of that entry (hold --unset).
C28_HoldKeptUntilUnsetOrRemove ==
    [][ \A k \in DOMAIN Persisted :
          Persisted[k].hold =>
            LET after == Load(file', disk')
            IN  \/ k \in DOMAIN after /\ after[k].hold /\ after[k].tag = Persisted[k].tag
                \/ k \notin DOMAIN after /\ cmd' = "rm"
                \/ k \in DOMAIN after /\ cmd' = "hold" /\ after[k] = HeldRelease(Persisted[k], TRUE)
      ]_vars

\* C29: whatever the entry names of the archive are, every file and
\* directory the extraction creates lies inside the extraction directory.
C29_ExtractStaysInside ==
    cmd = "extract" => \A path \in DOMAIN tmp : IsPrefix(ExtractRoot, path)

\* every check goroutine that was spawned has returned
AllReturned == \A k \in DOMAIN wpc : wpc[k] \in {"none", "done"}

\* C30: once the command spawns its check goroutines, wg.Wait() eventually
\* returns, with every goroutine returned and every semaphore token given
\* back.
C30_CheckPhaseTerminates ==
    (cmd = "upgrade" /\ pc = "spawn")
      ~> (pc \in {"prompt", "done"} /\ AllReturned /\ wg = 0 /\ sem = 0)

\* wg.Wait() has returned after more goroutines ran than the semaphore has
\* tokens
C30_Witness ==
    /\ PastWait /\ AllReturned
    /\ Cardinality({k \in DOMAIN wpc : wpc[k] = "done"}) > maxConcurrent

====
